---- MODULE Spec2Model ----
(***************************************************************************)
(* A model of the TOTP command-line calculator (totp_calculator/main.py).  *)
(*                                                                         *)
(* Texts are sequences of one-character strings.  The three functions of   *)
(* the module (find_totp_url, get_secret_from_url, generate_totp) are      *)
(* operators that compute what the code computes; main is a state machine  *)
(* with one action per statement of its body.                              *)
(*                                                                         *)
(* Three specifications:                                                   *)
(*   Spec        a run of main on a standard input, an argument vector,    *)
(*               a clock and a clipboard;                                  *)
(*   SpecLocate  find_totp_url applied to a text;                          *)
(*   SpecParse   get_secret_from_url applied to a URL.                     *)
(***************************************************************************)
EXTENDS Integers, Sequences, FiniteSets, TLC

VARIABLES
    pc,            \* main: the statement about to run
    argv,          \* main: sys.argv[1:]
    stdin,         \* main: what standard input holds
    clock,         \* main: the wall clock, in seconds since the epoch
    copy,          \* main: args.copy
    stdinRead,     \* main: whether read_stdin() has returned
    stdin_content, \* main: local variable
    totp_url,      \* main: local variable
    secret,        \* main: local variable
    totp_code,     \* main: local variable
    timecode,      \* main: the counter the code was derived from
    exc,           \* main: the exception in flight
    stdout,        \* main: lines printed to standard output
    stderr,        \* main: lines printed to standard error
    clipboard,     \* main: values the clipboard has been set to
    copyCalls,     \* main: arguments of the calls of pyperclip.copy
    exitStatus,    \* main: the process's exit status, -1 while running
    locText,       \* SpecLocate: the argument of find_totp_url
    locResult,     \* SpecLocate: what find_totp_url returned or raised
    parseUrl,      \* SpecParse: the argument of get_secret_from_url
    parseResult    \* SpecParse: what get_secret_from_url returned or raised

mainVars == <<pc, argv, stdin, clock, copy, stdinRead, stdin_content, totp_url,
              secret, totp_code, timecode, exc, stdout, stderr, clipboard,
              copyCalls, exitStatus>>
locVars == <<locText, locResult>>
parseVars == <<parseUrl, parseResult>>
vars == <<mainVars, locVars, parseVars>>

(***************************************************************************)
(* Bounds of the model.                                                    *)
(***************************************************************************)
\* the number of segments a text given to find_totp_url is made of
MaxLocSegs == 4
\* the number of segments a URL given to get_secret_from_url is made of
MaxUrlSegs == 4
\* the number of segments main's standard input is made of
MaxStdinSegs == 2
\* the latest clock reading, in seconds
MaxTime == 61

(***************************************************************************)
(* Text helpers.                                                           *)
(***************************************************************************)
RECURSIVE Concat(_)
Concat(ss) == IF ss = <<>> THEN <<>> ELSE Head(ss) \o Concat(Tail(ss))

\* every sequence of at most n elements of the sequence segs, concatenated
TextsOf(segs, n) ==
    UNION { { Concat([i \in 1..k |-> segs[f[i]]]) :
                f \in [1..k -> 1..Len(segs)] } : k \in 0..n }

\* str.find: the index of the first c in s at or after i, 0 when there is none
RECURSIVE Find(_, _, _)
Find(s, c, i) ==
    IF i > Len(s) THEN 0 ELSE IF s[i] = c THEN i ELSE Find(s, c, i + 1)

\* what a function returns (ok, val), or the exception it raises: its class
\* and the parts of its message
Ok(v) == [ok |-> TRUE, val |-> v, type |-> "", err |-> <<>>]
RaiseAs(t, e) == [ok |-> FALSE, val |-> <<>>, type |-> t, err |-> e]
Raise(e) == RaiseAs("ValueError", e)

\* a handler that compares the class instead of testing for a subclass
IsExactlyValueError(t) == t = "ValueError"

\* the exception classes that "except ValueError" catches
IsValueError(t) == t \in {"ValueError", "binascii.Error"}

(***************************************************************************)
(* find_totp_url: re.findall(r"otpauth://[^\s]+", text).                   *)
(***************************************************************************)
Prefix == <<"o", "t", "p", "a", "u", "t", "h", ":", "/", "/">>

\* the regular expression's \s on the characters of the model
IsSpace(c) == c \in {" ", "\t", "\n", "\r", "\f"}

\* the pattern matches at i: the literal, then at least one non-space
MatchesAt(text, i) ==
    /\ i + Len(Prefix) <= Len(text)
    /\ SubSeq(text, i, i + Len(Prefix) - 1) = Prefix
    /\ ~IsSpace(text[i + Len(Prefix)])

\* a lazy quantifier ([^\s]+?) would stop at the first non-space
MatchEndLazy(text, j) == j

\* [^\s]+ is greedy: the match runs to the last non-space from j on
RECURSIVE MatchEnd(_, _)
MatchEnd(text, j) ==
    IF j + 1 <= Len(text) /\ ~IsSpace(text[j + 1])
    THEN MatchEnd(text, j + 1)
    ELSE j

\* re.findall scans left to right and resumes after each match
RECURSIVE FindAll(_, _)
FindAll(text, i) ==
    IF i > Len(text) THEN <<>>
    ELSE IF MatchesAt(text, i)
         THEN LET e == MatchEnd(text, i + Len(Prefix))
              IN  <<SubSeq(text, i, e)>> \o FindAll(text, e + 1)
         ELSE FindAll(text, i + 1)

NoUrlFound == <<"No TOTP URL found in the input.">>
MultipleUrlsFound == <<"Multiple TOTP URLs found in the input.">>

\* an off-by-one in the second test lets two URLs through
find_totp_url_two(text) ==
    LET urls == FindAll(text, 1)
    IN  IF Len(urls) = 0 THEN Raise(NoUrlFound)
        ELSE IF Len(urls) > 2 THEN Raise(MultipleUrlsFound)
        ELSE Ok(urls[1])

find_totp_url(text) ==
    LET urls == FindAll(text, 1)
    IN  IF Len(urls) = 0 THEN Raise(NoUrlFound)
        ELSE IF Len(urls) > 1 THEN Raise(MultipleUrlsFound)
        ELSE Ok(urls[1])

(***************************************************************************)
(* SpecLocate: find_totp_url on every text of at most MaxLocSegs segments. *)
(***************************************************************************)
LocSegs == <<
    Prefix,
    <<"o", "t", "p", "a", "u", "t", "h", ":", "/">>,
    <<"a">>,
    <<" ">>,
    <<"\n">>,
    Prefix \o <<"x">> >>

NotCalled == RaiseAs("", <<"not called">>)

MainIdle ==
    /\ pc = "idle" /\ argv = <<>> /\ stdin = <<>> /\ clock = 0
    /\ copy = FALSE /\ stdinRead = FALSE /\ stdin_content = <<>>
    /\ totp_url = <<>> /\ secret = <<>> /\ totp_code = <<>> /\ timecode = -1
    /\ exc = NotCalled /\ stdout = <<>> /\ stderr = <<>> /\ clipboard = <<>>
    /\ copyCalls = <<>> /\ exitStatus = -1

InitLocate ==
    /\ MainIdle
    /\ locText \in TextsOf(LocSegs, MaxLocSegs)
    /\ locResult = NotCalled
    /\ parseUrl = <<>> /\ parseResult = NotCalled

Locate ==
    /\ locResult = NotCalled
    /\ locResult' = find_totp_url(locText)
    /\ UNCHANGED <<mainVars, locText, parseVars>>

NextLocate == Locate

SpecLocate == InitLocate /\ [][NextLocate]_vars


(***************************************************************************)
(* The locator's claims.  The matches of the pattern are stated here       *)
(* without scanning: an occurrence of the literal starts a match when a    *)
(* non-space follows it and no earlier occurrence reaches it through       *)
(* non-spaces only.                                                        *)
(***************************************************************************)
OccursAt(text, i) ==
    /\ i + Len(Prefix) - 1 <= Len(text)
    /\ SubSeq(text, i, i + Len(Prefix) - 1) = Prefix

Occurrences(text) == { i \in 1..Len(text) : OccursAt(text, i) }

NoSpaceIn(text, a, b) == \A k \in a..b : ~IsSpace(text[k])

MatchStarts(text) ==
    { i \in Occurrences(text) :
        /\ i + Len(Prefix) <= Len(text)
        /\ ~IsSpace(text[i + Len(Prefix)])
        /\ ~\E j \in Occurrences(text) : j < i /\ NoSpaceIn(text, j, i - 1) }

\* the match that starts at i: up to the next space or the end of the text
MatchText(text, i) ==
    LET e == CHOOSE e \in i..Len(text) :
                 /\ NoSpaceIn(text, i, e)
                 /\ (e = Len(text) \/ IsSpace(text[e + 1]))
    IN  SubSeq(text, i, e)

LocateCalled == locResult # NotCalled

\* C2: find_totp_url counts the matches of the pattern: none raises the
\* no-URL error, more than one raises the multiple-URLs error, exactly one
\* returns the matched substring unchanged.
C2_LocatorCardinality ==
    LocateCalled =>
        LET starts == MatchStarts(locText)
        IN  /\ Cardinality(starts) = 0 => locResult = Raise(NoUrlFound)
            /\ Cardinality(starts) > 1 => locResult = Raise(MultipleUrlsFound)
            /\ Cardinality(starts) = 1 =>
                   locResult = Ok(MatchText(locText, CHOOSE i \in starts : TRUE))

\* a single match inside a longer text, with an unmatched occurrence before it
C2_Witness ==
    /\ LocateCalled
    /\ locResult.ok
    /\ Cardinality(Occurrences(locText)) = 2
    /\ Len(locResult.val) < Len(locText)

\* C8 as stated: any text with two occurrences of otpauth:// is rejected as
\* ambiguous, whether or not whitespace separates them.
C8_AsStated ==
    (LocateCalled /\ Cardinality(Occurrences(locText)) >= 2)
        => locResult = Raise(MultipleUrlsFound)

\* two occurrences, each followed by a non-space, with a space somewhere
\* between the end of the first and the start of the second
SeparatedPair(text) ==
    \E i, j \in Occurrences(text) :
        /\ i < j
        /\ i + Len(Prefix) <= Len(text) /\ ~IsSpace(text[i + Len(Prefix)])
        /\ j + Len(Prefix) <= Len(text) /\ ~IsSpace(text[j + Len(Prefix)])
        /\ \E k \in (i + Len(Prefix))..(j - 1) : IsSpace(text[k])

\* C8, amended: a text with two occurrences of otpauth://, each followed by
\* a non-space character and with whitespace between them, is rejected as
\* ambiguous and no URL is returned.
C8_SeparatedAmbiguous ==
    (LocateCalled /\ SeparatedPair(locText))
        => locResult = Raise(MultipleUrlsFound)

C8_Witness ==
    /\ LocateCalled
    /\ SeparatedPair(locText)
    /\ Cardinality(Occurrences(locText)) = 2
    /\ locResult = Raise(MultipleUrlsFound)

(***************************************************************************)
(* get_secret_from_url: urllib.parse.urlparse, then parse_qs on the query. *)
(***************************************************************************)
Ascii == <<" ", "!", "\"", "#", "$", "%", "&", "'", "(", ")", "*", "+", ",",
    "-", ".", "/", "0", "1", "2", "3", "4", "5", "6", "7", "8", "9", ":", ";",
    "<", "=", ">", "?", "@", "A", "B", "C", "D", "E", "F", "G", "H", "I", "J",
    "K", "L", "M", "N", "O", "P", "Q", "R", "S", "T", "U", "V", "W", "X", "Y",
    "Z", "[", "\\", "]", "^", "_", "<grave>", "a", "b", "c", "d", "e", "f", "g", "h",
    "i", "j", "k", "l", "m", "n", "o", "p", "q", "r", "s", "t", "u", "v", "w",
    "x", "y", "z", "{", "|", "}", "~">>

\* (the grave accent, which a TLA+ string cannot hold, is spelled out)
\* the character with code n; a code outside printable ASCII is shown as one
\* placeholder character (the model's texts escape printable characters only)
Chr(n) == IF n \in 32..126 THEN Ascii[n - 31] ELSE "<?>"

\* the code of a printable character
OrdTable == [c \in {Ascii[k] : k \in 1..Len(Ascii)} |->
                31 + CHOOSE k \in 1..Len(Ascii) : Ascii[k] = c]
Ord(c) == OrdTable[c]

DigitChars == {Ascii[k] : k \in 17..26}
UpperChars == {Ascii[k] : k \in 34..59}
LowerChars == {Ascii[k] : k \in 66..91}
HexChars == DigitChars \cup {"A", "B", "C", "D", "E", "F",
                              "a", "b", "c", "d", "e", "f"}
IsDigit(c) == c \in DigitChars
IsUpper(c) == c \in UpperChars
IsLower(c) == c \in LowerChars
IsHex(c) == c \in HexChars
HexVal(c) ==
    IF IsDigit(c) THEN Ord(c) - Ord("0")
    ELSE IF IsUpper(c) THEN Ord(c) - Ord("A") + 10
    ELSE Ord(c) - Ord("a") + 10

Lower(c) == IF IsUpper(c) THEN Chr(Ord(c) + 32) ELSE c

\* str.split(c): the pieces of s between the occurrences of c
RECURSIVE Split(_, _)
Split(s, c) ==
    LET i == Find(s, c, 1)
    IN  IF i = 0 THEN <<s>>
        ELSE <<SubSeq(s, 1, i - 1)>> \o Split(SubSeq(s, i + 1, Len(s)), c)

\* str.split(c, 1): at most one split, at the first c
SplitOnce(s, c) ==
    LET i == Find(s, c, 1)
    IN  IF i = 0 THEN <<s>>
        ELSE <<SubSeq(s, 1, i - 1), SubSeq(s, i + 1, Len(s))>>

\* str.lstrip of the C0 control and space characters
RECURSIVE LStrip(_)
LStrip(s) ==
    IF s # <<>> /\ IsSpace(Head(s)) THEN LStrip(Tail(s)) ELSE s

\* str.replace(b, "") for the tab, carriage return and newline
RemoveUnsafe(s) == SelectSeq(s, LAMBDA c : c \notin {"\t", "\r", "\n"})

\* the characters a scheme is made of
IsSchemeChar(c) ==
    IsLower(c) \/ IsUpper(c) \/ IsDigit(c) \/ c \in {"+", "-", "."}

Contains(s, c) == Find(s, c, 1) # 0

\* _splitnetloc: the authority ends at the first "/", "?" or "#"
NetlocEnd(url) ==
    LET ends == { Find(url, c, 3) : c \in {"/", "?", "#"} } \ {0}
    IN  IF ends = {} THEN Len(url) + 1
        ELSE CHOOSE d \in ends : \A e \in ends : d <= e

InvalidIPv6 == <<"Invalid IPv6 URL">>

\* urlsplit as urlparse uses it: the five components, or the ValueError
urlparse(url0) ==
    LET url1 == RemoveUnsafe(LStrip(url0))
        i == Find(url1, ":", 1)
        hasScheme ==
            /\ i > 1
            /\ IsLower(url1[1]) \/ IsUpper(url1[1])
            /\ \A k \in 1..(i - 1) : IsSchemeChar(url1[k])
        scheme == IF hasScheme
                  THEN [k \in 1..(i - 1) |-> Lower(url1[k])] ELSE <<>>
        url2 == IF hasScheme THEN SubSeq(url1, i + 1, Len(url1)) ELSE url1
        hasNetloc == Len(url2) >= 2 /\ SubSeq(url2, 1, 2) = <<"/", "/">>
        d == NetlocEnd(url2)
        netloc == IF hasNetloc THEN SubSeq(url2, 3, d - 1) ELSE <<>>
        url3 == IF hasNetloc THEN SubSeq(url2, d, Len(url2)) ELSE url2
        atHash == SplitOnce(url3, "#")
        fragment == IF Len(atHash) = 2 THEN atHash[2] ELSE <<>>
        atQuery == SplitOnce(atHash[1], "?")
        query == IF Len(atQuery) = 2 THEN atQuery[2] ELSE <<>>
    IN  IF hasNetloc /\ (Contains(netloc, "[") # Contains(netloc, "]"))
        THEN Raise(InvalidIPv6)
        ELSE Ok([scheme |-> scheme, netloc |-> netloc, path |-> atQuery[1],
                 query |-> query, fragment |-> fragment])

\* urllib.parse.unquote: each %xx escape becomes the character it names
RECURSIVE Unquote(_)
Unquote(s) ==
    IF s = <<>> THEN <<>>
    ELSE IF s[1] = "%" /\ Len(s) >= 3 /\ IsHex(s[2]) /\ IsHex(s[3])
         THEN <<Chr(16 * HexVal(s[2]) + HexVal(s[3]))>>
                  \o Unquote(SubSeq(s, 4, Len(s)))
         ELSE <<s[1]>> \o Unquote(Tail(s))

PlusToSpace(s) == [k \in 1..Len(s) |-> IF s[k] = "+" THEN " " ELSE s[k]]

\* one field of the query as parse_qsl reads it: nothing for an empty field,
\* a field without "=" or a field with an empty value, else <<name, value>>
QsField(name_value) ==
    LET nv == SplitOnce(name_value, "=")
    IN  IF name_value = <<>> \/ Len(nv) # 2 \/ Len(nv[2]) = 0 THEN <<>>
        ELSE << <<Unquote(PlusToSpace(nv[1])),
                  Unquote(PlusToSpace(nv[2]))>> >>

\* parse_qsl: the fields of the query in order
parse_qsl(qs) ==
    LET query_args == IF qs = <<>> THEN <<>> ELSE Split(qs, "&")
    IN  Concat([k \in 1..Len(query_args) |-> QsField(query_args[k])])

\* taking the last value of a key, as a dict built by assignment would
QsValuesLast(qs, name) ==
    LET fields == SelectSeq(parse_qsl(qs), LAMBDA f : f[1] = name)
    IN  IF fields = <<>> THEN <<>> ELSE <<fields[Len(fields)][2]>>

\* parse_qs(qs)[name]: the values of the key in order, <<>> when the key is
\* not in the dictionary
QsValues(qs, name) ==
    LET fields == SelectSeq(parse_qsl(qs), LAMBDA f : f[1] = name)
    IN  [k \in 1..Len(fields) |-> fields[k][2]]

SecretKey == <<"s", "e", "c", "r", "e", "t">>
FailedToParse == "Failed to parse TOTP URL: "
MissingSecret == "The TOTP URL is missing the 'secret' parameter."

\* query_params.get("secret", [""])[0]: no error for a missing secret
get_secret_or_empty(url) ==
    LET parsed_url == urlparse(url)
    IN  IF ~parsed_url.ok
        THEN Raise(<<FailedToParse>> \o parsed_url.err)
        ELSE LET values == QsValues(parsed_url.val.query, SecretKey)
             IN  IF values = <<>> THEN Ok(<<>>) ELSE Ok(values[1])

get_secret_from_url(url) ==
    LET parsed_url == urlparse(url)
    IN  IF ~parsed_url.ok
        THEN Raise(<<FailedToParse>> \o parsed_url.err)
        ELSE LET values == QsValues(parsed_url.val.query, SecretKey)
             IN  IF values = <<>>
                 THEN Raise(<<FailedToParse, MissingSecret>>)
                 ELSE Ok(values[1])

(***************************************************************************)
(* SpecParse: get_secret_from_url on every URL of at most MaxUrlSegs       *)
(* segments.                                                               *)
(***************************************************************************)
UrlSegs == <<
    Prefix \o <<"t", "o", "t", "p", "/", "a">>,
    Prefix \o <<"h", "o", "t", "p", "/", "a">>,
    Prefix \o <<"[", "t", "o", "t", "p", "/", "a">>,
    <<"h", "t", "t", "p", ":", "/", "/", "e", ".", "c", "o", "m">>,
    <<"?", "s", "e", "c", "r", "e", "t", "=", "A">>,
    <<"&", "s", "e", "c", "r", "e", "t", "=", "B">>,
    <<"&", "s", "e", "c", "r", "e", "t", "=">>,
    <<"&", "x", "=", "1">>,
    <<"#">>,
    <<"&", "%", "7", "3", "e", "c", "r", "e", "t", "=", "C", "+", "%", "4", "1">> >>

InitParse ==
    /\ MainIdle
    /\ locText = <<>> /\ locResult = NotCalled
    /\ parseUrl \in TextsOf(UrlSegs, MaxUrlSegs)
    /\ parseResult = NotCalled

Parse ==
    /\ parseResult = NotCalled
    /\ parseResult' = get_secret_from_url(parseUrl)
    /\ UNCHANGED <<mainVars, locVars, parseUrl>>

NextParse == Parse

SpecParse == InitParse /\ [][NextParse]_vars

(***************************************************************************)
(* The parser's claims.  The query and its fields are stated here from the *)
(* text of the URL: the query runs from the first "?" to the first "#".    *)
(***************************************************************************)
QueryOf(url) ==
    LET h == Find(url, "#", 1)
        last == IF h = 0 THEN Len(url) ELSE h - 1
        q == Find(url, "?", 1)
    IN  IF q = 0 \/ q > last THEN <<>> ELSE SubSeq(url, q + 1, last)

RawFields(url) ==
    IF QueryOf(url) = <<>> THEN <<>>
    ELSE SelectSeq(Split(QueryOf(url), "&"), LAMBDA f : f # <<>>)

FieldName(f) ==
    LET e == Find(f, "=", 1)
    IN  Unquote(PlusToSpace(IF e = 0 THEN f ELSE SubSeq(f, 1, e - 1)))

FieldValue(f) ==
    LET e == Find(f, "=", 1)
    IN  IF e = 0 THEN <<>> ELSE Unquote(PlusToSpace(SubSeq(f, e + 1, Len(f))))

\* the values of the fields named secret, in the order of the query string
SecretOccurrences(url) ==
    LET fields == SelectSeq(RawFields(url), LAMBDA f : FieldName(f) = SecretKey)
    IN  [k \in 1..Len(fields) |-> FieldValue(fields[k])]

NonEmpty(values) == SelectSeq(values, LAMBDA v : v # <<>>)

ParseCalled == parseResult # NotCalled

\* the URL is an otpauth URL whose host component is exactly totp
IsTotpUrl(url) ==
    LET p == urlparse(url)
    IN  /\ p.ok
        /\ p.val.scheme = <<"o", "t", "p", "a", "u", "t", "h">>
        /\ p.val.netloc = <<"t", "o", "t", "p">>

\* the URL has a host component, and it is not totp
HasOtherHost(url) ==
    LET p == urlparse(url)
    IN  p.ok /\ p.val.netloc # <<>> /\ ~IsTotpUrl(url)

\* C5: parsing a URL whose host component is not exactly totp (hotp, or a
\* URL that is no otpauth URL) fails and yields no secret.
C5_NonTotpRejected ==
    (ParseCalled /\ HasOtherHost(parseUrl)) => ~parseResult.ok

B32Alphabet == <<"A", "B", "C", "D", "E", "F", "G", "H", "I", "J", "K", "L",
    "M", "N", "O", "P", "Q", "R", "S", "T", "U", "V", "W", "X", "Y", "Z", "2",
    "3", "4", "5", "6", "7">>

Upper(c) == IF IsLower(c) THEN Chr(Ord(c) - 32) ELSE c

\* _b32rev: the value of each character of the alphabet
B32Rev == [c \in {B32Alphabet[k] : k \in 1..Len(B32Alphabet)} |->
              (CHOOSE k \in 1..Len(B32Alphabet) : B32Alphabet[k] = c) - 1]
IsB32(c) == Upper(c) \in DOMAIN B32Rev
B32Val(c) == B32Rev[Upper(c)]

\* str.rstrip("=")
RECURSIVE RStripPad(_)
RStripPad(s) ==
    IF s # <<>> /\ s[Len(s)] = "=" THEN RStripPad(SubSeq(s, 1, Len(s) - 1))
    ELSE s

\* the n low bits of v, most significant first
BitsOf(v, n) == [k \in 1..n |-> (v \div 2^(n - k)) % 2]

\* the byte that eight bits, most significant first, spell
ByteOf(bits) ==
    128 * bits[1] + 64 * bits[2] + 32 * bits[3] + 16 * bits[4]
        + 8 * bits[5] + 4 * bits[6] + 2 * bits[7] + bits[8]

NonBase32 == <<"Non-base32 digit found">>
IncorrectPadding == <<"Incorrect padding">>

\* base64.b32decode(s, casefold=True): the bytes, or binascii.Error
b32decode(s) ==
    LET body == RStripPad(s)
        padchars == Len(s) - Len(body)
        bits == Concat([k \in 1..Len(body) |-> BitsOf(B32Val(body[k]), 5)])
                    \o [k \in 1..(5 * padchars) |-> 0]
        leftover == (43 - 5 * padchars) \div 8
        nbytes == IF padchars = 0 THEN Len(bits) \div 8
                  ELSE (Len(bits) \div 8) - 5 + leftover
    IN  IF Len(s) % 8 # 0
        THEN RaiseAs("binascii.Error", IncorrectPadding)
        ELSE IF \E k \in 1..Len(body) : ~IsB32(body[k])
        THEN RaiseAs("binascii.Error", NonBase32)
        ELSE IF padchars \notin {0, 1, 3, 4, 6}
        THEN RaiseAs("binascii.Error", IncorrectPadding)
        ELSE Ok([k \in 1..nbytes |-> ByteOf(SubSeq(bits, 8 * k - 7, 8 * k))])

\* OTP.byte_secret: the secret padded with "=" to a multiple of 8, decoded
byte_secret(s) ==
    b32decode(s \o [k \in 1..((8 - (Len(s) % 8)) % 8) |-> "="])

\* utils.int_to_bytestring: the counter as 8 bytes, big-endian (a counter
\* below 2^32, so that the four high bytes are 0)
int_to_bytestring(i) ==
    [k \in 1..8 |-> IF k <= 4 THEN 0 ELSE (i \div 256^(8 - k)) % 256]

DigestSize(digest) ==
    CASE digest = "sha1" -> 20 [] digest = "sha256" -> 32 [] digest = "sha512" -> 64

Mix(h, b) == (h * 31 + b + 7) % 65521

RECURSIVE Absorb(_, _)
Absorb(h, bytes) ==
    IF bytes = <<>> THEN h ELSE Absorb(Mix(h, Head(bytes)), Tail(bytes))

RECURSIVE Squeeze(_, _)
Squeeze(h, n) ==
    IF n = 0 THEN <<>> ELSE <<Mix(h, n) % 256>> \o Squeeze(Mix(h, n), n - 1)

\* hmac.new(key, msg, digest).digest(): DigestSize(digest) bytes that depend
\* on the digest, the key and the message
HMAC(digest, key, msg) ==
    Squeeze(Absorb(Absorb(DigestSize(digest), key), msg), DigestSize(digest))

\* the decimal digits of v, zero-padded on the left to n characters
\* (str(10_000_000_000 + v)[-n:] for n <= 10)
DigitsOf(v, n) ==
    [k \in 1..n |-> Chr(Ord("0") + ((v \div 10^(n - k)) % 10))]

\* OTP.generate_otp: dynamic truncation of the digest, reduced to digits
generate_otp(s, input, digits, digest) ==
    LET key == byte_secret(s)
    IN  IF input < 0 THEN Raise(<<"input must be positive integer">>)
        ELSE IF ~key.ok THEN key
        ELSE LET hmac_hash == HMAC(digest, key.val, int_to_bytestring(input))
                 offset == hmac_hash[Len(hmac_hash)] % 16
                 code == (hmac_hash[offset + 1] % 128) * 16777216
                         + hmac_hash[offset + 2] * 65536
                         + hmac_hash[offset + 3] * 256
                         + hmac_hash[offset + 4]
                 reduced == IF digits >= 10 THEN code ELSE code % 10^digits
             IN  Ok(DigitsOf(reduced, digits))

\* rounding to the nearest step instead of truncating
TimecodeRounded(for_time, interval) == (for_time + interval \div 2) \div interval

\* TOTP.timecode: int(seconds / interval)
Timecode(for_time, interval) == for_time \div interval

\* TOTP(s, digits, digest, interval).at(for_time)
TotpAt(s, digits, digest, interval, for_time) ==
    generate_otp(s, Timecode(for_time, interval), digits, digest)

\* generate_totp(secret), with the clock reading that now() takes: the
\* library's defaults, 6 digits, SHA-1 and a step of 30 seconds
generate_totp(s, for_time) == TotpAt(s, 6, "sha1", 30, for_time)

(***************************************************************************)
(* main.                                                                   *)
(***************************************************************************)
CopyOptions == {"-c", "--copy"}
HelpOptions == {"-h", "--help"}
Args == {"-c", "--copy", "-h", "-x"}

\* the argument vectors of the model: none, one argument, and the help
\* option after another argument
ArgvSet == {<<>>, <<"-c">>, <<"--copy">>, <<"-h">>, <<"-x">>, <<"-x", "-h">>}

Has(av, opts) == \E k \in 1..Len(av) : av[k] \in opts

\* what argparse does with the argument vector
ArgsHelp(av) == Has(av, HelpOptions)
ArgsRejected(av) == ~ArgsHelp(av) /\ Has(av, Args \ (CopyOptions \cup HelpOptions))
ArgsAccepted(av) == ~ArgsHelp(av) /\ ~ArgsRejected(av)

UsageLine == <<"usage: ">>
CopiedLine == <<"Copied to clipboard.">>
WarningLine(e) == <<"Warning: Could not copy to clipboard. ">> \o e
ErrorLine(e) == <<"Error: ">> \o e
TracebackLine(e) == <<"Traceback (most recent call last):">> \o e.err

\* the segments of a standard input: URLs with and without a secret, one
\* that urlparse rejects, one on a line of its own, and what may follow
StdinSegs == <<
    Prefix \o <<"t", "o", "t", "p", "/", "a", "?", "s", "e", "c", "r", "e", "t", "=",
                "J", "B", "S", "W", "Y", "3", "D", "P">>,
    <<"\n">> \o Prefix
        \o <<"t", "o", "t", "p", "/", "b", "?", "s", "e", "c", "r", "e", "t", "=",
             "J", "B", "S", "W", "Y", "3", "D", "P">>,
    Prefix \o <<"t", "o", "t", "p", "/", "a", "?", "x", "=", "1">>,
    Prefix \o <<"[", "t", "o", "t", "p", "/", "a">>,
    <<"&", "s", "e", "c", "r", "e", "t", "=", "1">>,
    <<"&", "d", "i", "g", "i", "t", "s", "=", "7",
      "&", "p", "e", "r", "i", "o", "d", "=", "4", "5">>,
    <<" ">>,
    <<"A">> >>

Init ==
    /\ pc = "parse_args"
    /\ argv \in ArgvSet
    /\ stdin \in TextsOf(StdinSegs, MaxStdinSegs)
    /\ clock = 0
    /\ copy = FALSE /\ stdinRead = FALSE /\ stdin_content = <<>>
    /\ totp_url = <<>> /\ secret = <<>> /\ totp_code = <<>> /\ timecode = -1
    /\ exc = NotCalled /\ stdout = <<>> /\ stderr = <<>> /\ clipboard = <<>>
    /\ copyCalls = <<>> /\ exitStatus = -1
    /\ locText = <<>> /\ locResult = NotCalled
    /\ parseUrl = <<>> /\ parseResult = NotCalled

\* args = parser.parse_args(): --help prints the help and exits with 0, an
\* unrecognised argument prints the usage to standard error and exits with 2
ParseArgs ==
    /\ pc = "parse_args"
    /\ IF ArgsHelp(argv)
       THEN /\ stdout' = Append(stdout, UsageLine)
            /\ exitStatus' = 0 /\ pc' = "done"
            /\ UNCHANGED <<copy, stderr>>
       ELSE IF ArgsRejected(argv)
       THEN /\ stderr' = Append(stderr, UsageLine)
            /\ exitStatus' = 2 /\ pc' = "done"
            /\ UNCHANGED <<copy, stdout>>
       ELSE /\ copy' = Has(argv, CopyOptions)
            /\ pc' = "read_stdin"
            /\ UNCHANGED <<stdout, stderr, exitStatus>>
    /\ UNCHANGED <<argv, stdin, clock, stdinRead, stdin_content, totp_url,
                   secret, totp_code, timecode, exc, clipboard, copyCalls,
                   locVars, parseVars>>

\* stdin_content = read_stdin()
ReadStdin ==
    /\ pc = "read_stdin"
    /\ stdin_content' = stdin
    /\ stdinRead' = TRUE
    /\ pc' = "find_totp_url"
    /\ UNCHANGED <<argv, stdin, clock, copy, totp_url, secret, totp_code,
                   timecode, exc, stdout, stderr, clipboard, copyCalls,
                   exitStatus, locVars, parseVars>>

\* totp_url = find_totp_url(stdin_content)
FindUrl ==
    /\ pc = "find_totp_url"
    /\ LET r == find_totp_url(stdin_content)
       IN  IF r.ok
           THEN totp_url' = r.val /\ pc' = "get_secret_from_url" /\ UNCHANGED exc
           ELSE exc' = r /\ pc' = "except" /\ UNCHANGED totp_url
    /\ UNCHANGED <<argv, stdin, clock, copy, stdinRead, stdin_content, secret,
                   totp_code, timecode, stdout, stderr, clipboard, copyCalls,
                   exitStatus, locVars, parseVars>>

\* secret = get_secret_from_url(totp_url)
GetSecret ==
    /\ pc = "get_secret_from_url"
    /\ LET r == get_secret_from_url(totp_url)
       IN  IF r.ok
           THEN secret' = r.val /\ pc' = "generate_totp" /\ UNCHANGED exc
           ELSE exc' = r /\ pc' = "except" /\ UNCHANGED secret
    /\ UNCHANGED <<argv, stdin, clock, copy, stdinRead, stdin_content,
                   totp_url, totp_code, timecode, stdout, stderr, clipboard,
                   copyCalls, exitStatus, locVars, parseVars>>

\* totp_code = generate_totp(secret), which reads the clock
GenerateTotp ==
    /\ pc = "generate_totp"
    /\ \E t \in 0..MaxTime :
        LET r == generate_totp(secret, t)
        IN  /\ clock' = t
            /\ IF r.ok
               THEN /\ totp_code' = r.val
                    /\ timecode' = Timecode(t, 30)
                    /\ pc' = "print" /\ UNCHANGED exc
               ELSE /\ exc' = r /\ pc' = "except"
                    /\ UNCHANGED <<totp_code, timecode>>
    /\ UNCHANGED <<argv, stdin, copy, stdinRead, stdin_content, totp_url,
                   secret, stdout, stderr, clipboard, copyCalls, exitStatus,
                   locVars, parseVars>>

\* print(totp_code); without --copy main returns and the process exits with 0
PrintCode ==
    /\ pc = "print"
    /\ stdout' = Append(stdout, totp_code)
    /\ IF copy THEN pc' = "copy" /\ UNCHANGED exitStatus
               ELSE pc' = "done" /\ exitStatus' = 0
    /\ UNCHANGED <<argv, stdin, clock, copy, stdinRead, stdin_content,
                   totp_url, secret, totp_code, timecode, exc, stderr,
                   clipboard, copyCalls, locVars, parseVars>>

ClipboardUnavailable == RaiseAs("PyperclipException", <<"Clipboard not available">>)

\* the clipboard's failure left to the outer handler
CopyUncaught ==
    /\ pc = "copy"
    /\ copyCalls' = Append(copyCalls, totp_code)
    /\ \/ /\ clipboard' = Append(clipboard, totp_code)
          /\ stderr' = Append(stderr, CopiedLine)
          /\ exitStatus' = 0 /\ pc' = "done" /\ UNCHANGED exc
       \/ /\ exc' = Raise(ClipboardUnavailable.err) /\ pc' = "except"
          /\ UNCHANGED <<clipboard, stderr, exitStatus>>
    /\ UNCHANGED <<argv, stdin, clock, copy, stdinRead, stdin_content,
                   totp_url, secret, totp_code, timecode, stdout,
                   locVars, parseVars>>

\* a failed write tried again
CopyRetry ==
    /\ pc = "copy"
    /\ Len(copyCalls) < 2
    /\ copyCalls' = Append(copyCalls, totp_code)
    /\ \/ /\ clipboard' = Append(clipboard, totp_code)
          /\ stderr' = Append(stderr, CopiedLine)
          /\ exitStatus' = 0 /\ pc' = "done"
       \/ /\ stderr' = Append(stderr, WarningLine(ClipboardUnavailable.err))
          /\ IF Len(copyCalls) = 0
             THEN pc' = "copy" /\ UNCHANGED exitStatus
             ELSE pc' = "done" /\ exitStatus' = 0
          /\ UNCHANGED clipboard
    /\ UNCHANGED <<argv, stdin, clock, copy, stdinRead, stdin_content,
                   totp_url, secret, totp_code, timecode, exc, stdout,
                   locVars, parseVars>>

\* if args.copy: pyperclip.copy(totp_code) sets the clipboard, or raises
\* PyperclipException, which is reported as a warning; then main returns
Copy ==
    /\ pc = "copy"
    /\ copyCalls' = Append(copyCalls, totp_code)
    /\ \/ /\ clipboard' = Append(clipboard, totp_code)
          /\ stderr' = Append(stderr, CopiedLine)
       \/ /\ stderr' = Append(stderr, WarningLine(ClipboardUnavailable.err))
          /\ UNCHANGED clipboard
    /\ exitStatus' = 0 /\ pc' = "done"
    /\ UNCHANGED <<argv, stdin, clock, copy, stdinRead, stdin_content,
                   totp_url, secret, totp_code, timecode, exc, stdout,
                   locVars, parseVars>>

\* except ValueError as e: the message to standard error, sys.exit(1); an
\* exception of another class leaves main and the interpreter prints the
\* traceback and exits with 1
Except ==
    /\ pc = "except"
    /\ stderr' = Append(stderr, IF IsValueError(exc.type)
                                THEN ErrorLine(exc.err)
                                ELSE TracebackLine(exc))
    /\ exitStatus' = 1 /\ pc' = "done"
    /\ UNCHANGED <<argv, stdin, clock, copy, stdinRead, stdin_content,
                   totp_url, secret, totp_code, timecode, exc, stdout,
                   clipboard, copyCalls, locVars, parseVars>>

Next ==
    \/ ParseArgs
    \/ ReadStdin
    \/ FindUrl
    \/ GetSecret
    \/ GenerateTotp
    \/ PrintCode
    \/ Copy
    \/ Except

Spec == Init /\ [][Next]_vars

(***************************************************************************)
(* The claims about main.                                                  *)
(***************************************************************************)
Done == pc = "done"

\* the line of standard output that holds the code
CodePrinted == totp_code # <<>> /\ \E k \in 1..Len(stdout) : stdout[k] = totp_code

BeginsWith(line, head) == line # <<>> /\ line[1] = head
HasErrorLine == \E k \in 1..Len(stderr) : BeginsWith(stderr[k], "Error: ")

\* the two outcomes of a run
SuccessOutcome == CodePrinted /\ exitStatus = 0
FailureOutcome == exitStatus = 1 /\ HasErrorLine

\* the locator, the parser or the generation fails on this standard input
StageFails(text) ==
    LET f == find_totp_url(text)
    IN  \/ ~f.ok
        \/ LET g == get_secret_from_url(f.val)
           IN  ~g.ok \/ ~byte_secret(g.val).ok

AllDigits(s) == s # <<>> /\ \A k \in 1..Len(s) : IsDigit(s[k])

RECURSIVE ParseInt(_)
ParseInt(s) ==
    IF s = <<>> THEN 0
    ELSE 10 * ParseInt(SubSeq(s, 1, Len(s) - 1)) + HexVal(s[Len(s)])

\* the values of a parameter of the URL's query
UriParam(url, name) == QsValues(QueryOf(url), name)

DigitsKey == <<"d", "i", "g", "i", "t", "s">>
PeriodKey == <<"p", "e", "r", "i", "o", "d">>
AlgorithmKey == <<"a", "l", "g", "o", "r", "i", "t", "h", "m">>

UriInt(url, name, default) ==
    IF UriParam(url, name) = <<>> THEN default
    ELSE ParseInt(UriParam(url, name)[1])

UriAlgorithm(url) ==
    IF UriParam(url, AlgorithmKey) = <<>> THEN "sha1"
    ELSE CASE UriParam(url, AlgorithmKey)[1] = <<"S", "H", "A", "2", "5", "6">> -> "sha256"
           [] UriParam(url, AlgorithmKey)[1] = <<"S", "H", "A", "5", "1", "2">> -> "sha512"
           [] OTHER -> "sha1"

\* the numeric parameters of the URL, where given, are positive numbers
UriWellFormed(url) ==
    /\ \A name \in {DigitsKey, PeriodKey} :
           UriParam(url, name) # <<>> => AllDigits(UriParam(url, name)[1])
    /\ UriInt(url, DigitsKey, 6) \in 6..9
    /\ UriInt(url, PeriodKey, 30) > 0

\* C1: the code main prints is the TOTP of the digits, period and algorithm
\* that the URL's query names (6, 30 and SHA1 where it names none): it has
\* exactly digits characters and comes from the counter floor(t / period).
C1_CodeFollowsUriParameters ==
    (Done /\ SuccessOutcome /\ UriWellFormed(totp_url))
        => /\ Len(stdout[1]) = UriInt(totp_url, DigitsKey, 6)
           /\ timecode = clock \div UriInt(totp_url, PeriodKey, 30)
           /\ stdout[1] = TotpAt(secret, UriInt(totp_url, DigitsKey, 6),
                                 UriAlgorithm(totp_url),
                                 UriInt(totp_url, PeriodKey, 30), clock).val

\* C3 as stated: every run of main ends either with the code printed and no
\* non-zero status, or with status 1 and a line "Error: ..." on standard
\* error; a failing locator, parser or generation takes the second outcome.
C3_AsStated ==
    Done => /\ SuccessOutcome \/ FailureOutcome
            /\ ~(SuccessOutcome /\ FailureOutcome)
            /\ StageFails(stdin) => FailureOutcome

\* C3, amended: every run of main whose arguments argparse accepts (none,
\* or -c/--copy) ends in exactly one of the two outcomes, and a failing
\* locator, parser or generation takes the failure outcome.
C3_TwoOutcomes ==
    (Done /\ ArgsAccepted(argv))
        => /\ SuccessOutcome \/ FailureOutcome
           /\ ~(SuccessOutcome /\ FailureOutcome)
           /\ StageFails(stdin) <=> FailureOutcome

\* a run that fails in the generation, on a secret that is no base32
C3_Witness ==
    /\ Done
    /\ ArgsAccepted(argv)
    /\ secret # <<>>
    /\ exc.type = "binascii.Error"
    /\ FailureOutcome

\* pyperclip.copy was called and the clipboard was not set
CopyFailed == copyCalls # <<>> /\ clipboard = <<>>

\* C4: with --copy and a failing clipboard write the run is a success: the
\* code is on standard output, the warning on standard error, there is no
\* "Error: " line and the status is not 1.
C4_CopyFailureIsWarning ==
    (Done /\ Has(argv, CopyOptions) /\ CopyFailed)
        => /\ CodePrinted
           /\ stdout = <<totp_code>>
           /\ BeginsWith(stderr[Len(stderr)], "Warning: Could not copy to clipboard. ")
           /\ ~HasErrorLine
           /\ exitStatus = 0

C4_Witness ==
    /\ Done
    /\ Has(argv, CopyOptions)
    /\ CopyFailed
    /\ stdout = <<totp_code>>
    /\ Len(stderr) = 1

\* the URL's query names no secret
NoSecretParam(url) == SecretOccurrences(url) = <<>>

\* get_secret_from_url has been called on the located URL
SecretLookedUp == totp_url # <<>> /\ pc # "get_secret_from_url"

IdentifiesMissingSecret(e) == \E k \in 1..Len(e.err) : e.err[k] = MissingSecret

\* C6 as stated: for every URL without a secret parameter the parser fails
\* with an error that identifies the missing secret and returns nothing;
\* the run ends with status 1 and nothing on standard output.
C6_AsStated ==
    (SecretLookedUp /\ NoSecretParam(totp_url))
        => /\ exc.type = "ValueError" /\ IdentifiesMissingSecret(exc)
           /\ secret = <<>>
           /\ Done => (exitStatus = 1 /\ stdout = <<>>)

\* C6, amended: for every URL without a secret parameter the parser raises
\* a ValueError and returns nothing, and the run ends with status 1 and
\* nothing on standard output; the error identifies the missing secret when
\* urlparse accepts the URL (it rejects one with an unbalanced square
\* bracket in its authority before the query is looked at).
C6_MissingSecretFails ==
    (SecretLookedUp /\ NoSecretParam(totp_url))
        => /\ exc.type = "ValueError"
           /\ urlparse(totp_url).ok => IdentifiesMissingSecret(exc)
           /\ secret = <<>>
           /\ Done => (exitStatus = 1 /\ stdout = <<>> /\ HasErrorLine)

\* a URL with a query that names another key only
C6_Witness ==
    /\ Done
    /\ SecretLookedUp
    /\ NoSecretParam(totp_url)
    /\ QueryOf(totp_url) # <<>>
    /\ IdentifiesMissingSecret(exc)
    /\ exitStatus = 1

\* C7: with the period of 30 seconds every reading of a window 30k..30k+29
\* maps to the counter k, and so to the code of k (compared when the code
\* has just been generated); the reading 30(k+1), on the boundary, maps to
\* k+1.
C7_WindowAlignment ==
    timecode # -1
        => /\ 30 * timecode <= clock
           /\ clock <= 30 * timecode + 29
           /\ pc = "print" => totp_code = generate_otp(secret, timecode, 6, "sha1").val

\* a reading exactly on a boundary belongs to the window that begins there
C7_Witness ==
    /\ pc = "print"
    /\ clock = 30
    /\ timecode = 1
    /\ totp_code # <<>>

BeforePrint == {"parse_args", "read_stdin", "find_totp_url",
                "get_secret_from_url", "generate_totp", "print", "except"}

\* C9: standard input is read first; the code is printed only after the
\* locator, the parser and the generation have succeeded (that they did is
\* compared at the end of the run); the clipboard is
\* written at most once, only with --copy, only after the print and with
\* the printed code; a run that ends with status 1 has printed nothing and
\* has not touched the clipboard.
C9_OrderedSingleShot ==
    /\ ~stdinRead => (~CodePrinted /\ copyCalls = <<>> /\ ~HasErrorLine)
    /\ CodePrinted => stdout = <<totp_code>>
    /\ (CodePrinted /\ Done) => (~StageFails(stdin)
                                 /\ totp_code = generate_totp(secret, clock).val)
    /\ pc \in BeforePrint => (stdout = <<>> /\ copyCalls = <<>>)
    /\ Len(copyCalls) <= 1
    /\ copyCalls # <<>> => (Has(argv, CopyOptions) /\ stdout = copyCalls)
    /\ clipboard # <<>> => clipboard = copyCalls
    /\ exitStatus = 1 => (stdout = <<>> /\ copyCalls = <<>> /\ clipboard = <<>>)

C9_Witness ==
    /\ Done
    /\ totp_code # <<>>
    /\ stdout = <<totp_code>>
    /\ clipboard = <<totp_code>>
    /\ copyCalls = <<totp_code>>

====
